---- MODULE Spec2Model ----
(***************************************************************************)
(* Model of the lap comparison scripts: the delta-time computation         *)
(* (calculate_delta_time), the sector comparison (print_sector_times) and  *)
(* the command-line driver (compare_drivers, __main__) of                  *)
(* src/lap_comparison.py.                                                  *)
(*                                                                         *)
(* Numbers.  Telemetry distances and times are integers.  A grid distance  *)
(* is kept as a numerator over GridDen = N - 1, which is exact for         *)
(* np.linspace(0, min_dist, N).  An interpolated time is kept as a         *)
(* numerator over TimeScale = GridDen * GapLcm, where GapLcm is a common   *)
(* multiple of every gap between consecutive sample distances, so every    *)
(* linear interpolation of the model is exact.                             *)
(***************************************************************************)
EXTENDS Integers, Sequences, FiniteSets, TLC

VARIABLES tel1, tel2, first, second, dpc

VARIABLES lap1, lap2, printed, spc

VARIABLES args, mpc, out, plot, loaded, raised, unhandled, exitStatus

dvars == <<tel1, tel2, first, second, dpc>>

svars == <<lap1, lap2, printed, spc>>

mvars == <<args, mpc, out, plot, loaded, raised, unhandled, exitStatus>>

vars == <<dvars, svars, mvars>>

(***************************************************************************)
(* Bounds of the generated telemetry.                                      *)
(***************************************************************************)
MaxLen == 2
MaxDist == 2
MaxTime == 2
MaxSector == 1

\* np.linspace(0, min_dist, 1000)
N == 1000

GridDen == N - 1

RECURSIVE Gcd(_, _)
Gcd(a, b) == IF b = 0 THEN a ELSE Gcd(b, a % b)

Lcm(a, b) == (a \div Gcd(a, b)) * b

RECURSIVE LcmOf(_)
LcmOf(S) ==
  IF S = {} THEN 1
  ELSE LET g == CHOOSE x \in S : TRUE IN Lcm(g, LcmOf(S \ {g}))

Max(a, b) == IF a >= b THEN a ELSE b

(***************************************************************************)
(* Telemetry.  A telemetry frame has the columns Time and Distance; the    *)
(* column SessionSeconds exists once calculate_delta_time has added it.    *)
(***************************************************************************)
DistValues == 0..MaxDist

TimeValues == 1..MaxTime

Increasing(s) == \A i \in 1..(Len(s) - 1) : s[i] < s[i + 1]

IncreasingSeqs(S, n) == {s \in [1..n -> S] : Increasing(s)}

Frame(d, t) ==
  [Distance |-> d, Time |-> t, SessionSeconds |-> <<>>,
   columns |-> {"Time", "Distance"}]

GenLaps ==
  UNION {{Frame(d, t) : d \in IncreasingSeqs(DistValues, n),
                        t \in IncreasingSeqs(TimeValues, n)} : n \in 0..MaxLen}

\* laps beyond the generated ones: the worked scenarios, with times on a
\* session clock
ScenarioA == Frame(<<0, 100, 200, 300>>, <<5, 15, 25, 35>>)

ScenarioB == Frame(<<0, 150, 300>>, <<7, 21, 36>>)

DisjointA == Frame(<<500, 1000>>, <<2, 12>>)

DisjointB == Frame(<<0, 400>>, <<1, 9>>)

\* a frame whose distances all lie below the grid's origin
BelowZero == Frame(<<0 - 3, 0 - 1>>, <<4, 7>>)

LateStart == Frame(<<1, 2>>, <<2, 3>>)

\* unevenly sampled laps
UnevenA == Frame(<<0, 1, 3>>, <<2, 5, 6>>)

UnevenB == Frame(<<1, 3, 4>>, <<3, 4, 8>>)

ScenarioLaps ==
  {ScenarioA, ScenarioB, DisjointA, DisjointB, BelowZero, LateStart,
   UnevenA, UnevenB}

ScenarioPairs == ScenarioLaps \X ScenarioLaps

InputPairs == (GenLaps \X GenLaps) \cup ScenarioPairs

Gaps ==
  UNION {{p[s].Distance[i + 1] - p[s].Distance[i] :
            i \in 1..(Len(p[s].Distance) - 1)} : p \in InputPairs, s \in 1..2}

GapLcm == LcmOf(Gaps)

TimeScale == GridDen * GapLcm

(***************************************************************************)
(* numpy and pandas primitives used by calculate_delta_time.               *)
(***************************************************************************)
RECURSIVE SeqMax(_)
SeqMax(s) ==
  IF Len(s) = 1 THEN s[1] ELSE Max(s[1], SeqMax(Tail(s)))

\* np.linspace(start, stop, num): numerators over num - 1
LinSpace(start, stop, num) ==
  [i \in 1..num |-> start * (num - 1) + (i - 1) * (stop - start)]

\* index j with xp[j] <= key < xp[j+1]; 0 below the range, Len + 1 above it
BinarySearch(key, xp) ==
  IF key > xp[Len(xp)] * GridDen THEN Len(xp) + 1
  ELSE IF key < xp[1] * GridDen THEN 0
  ELSE CHOOSE j \in 1..Len(xp) :
         /\ xp[j] * GridDen <= key
         /\ (j = Len(xp) \/ key < xp[j + 1] * GridDen)

\* an interpolation that continues the end segments beyond the samples
InterpAtExtrapolating(x, xp, fp) ==
  LET n == Len(xp)
      j == IF n = 1 THEN 1
           ELSE IF x < xp[1] * GridDen THEN 1
           ELSE IF x >= xp[n] * GridDen THEN n - 1
           ELSE CHOOSE k \in 1..(n - 1) :
                  xp[k] * GridDen <= x /\ x < xp[k + 1] * GridDen
  IN  IF n = 1 THEN fp[1] * TimeScale
      ELSE (fp[j + 1] - fp[j]) * (x - xp[j] * GridDen)
             * (GapLcm \div (xp[j + 1] - xp[j]))
           + fp[j] * TimeScale

\* np.interp at one point x (numerator over GridDen); result over TimeScale
InterpAt(x, xp, fp) ==
  LET j == BinarySearch(x, xp)
  IN  IF j = 0 THEN fp[1] * TimeScale
      ELSE IF j = Len(xp) + 1 THEN fp[Len(xp)] * TimeScale
      ELSE IF j = Len(xp) THEN fp[j] * TimeScale
      ELSE IF xp[j] * GridDen = x THEN fp[j] * TimeScale
      ELSE LET slopeNum == fp[j + 1] - fp[j]
               slopeDen == xp[j + 1] - xp[j]
           IN  slopeNum * (x - xp[j] * GridDen) * (GapLcm \div slopeDen)
                 + fp[j] * TimeScale

Interp(xs, xp, fp) == [i \in 1..Len(xs) |-> InterpAt(xs[i], xp, fp)]

\* seconds on the session clock, not since the lap's first sample
SessionSecondsOnSessionClock(time) == time

\* (tel['Time'] - tel['Time'].iloc[0]).dt.total_seconds()
SessionSeconds(time) == [i \in 1..Len(time) |-> time[i] - time[1]]

\* tel['SessionSeconds'] = ...
WithSessionSeconds(tel) ==
  [tel EXCEPT !.SessionSeconds = SessionSeconds(tel.Time),
              !.columns = @ \cup {"SessionSeconds"}]

\* the first operand's lap length alone
MinDistOfFirst(a, b) == SeqMax(a.Distance)

\* min(tel1['Distance'].max(), tel2['Distance'].max())
MinDist(a, b) == IF SeqMax(a.Distance) <= SeqMax(b.Distance)
                 THEN SeqMax(a.Distance) ELSE SeqMax(b.Distance)

Raised(kind) ==
  [status |-> kind, dist |-> <<>>, delta |-> <<>>, time1 |-> <<>>, time2 |-> <<>>]

NotCalled == Raised("none")

(***************************************************************************)
(* calculate_delta_time(a, b): the frames after the call and the result.   *)
(* .iloc[0] of an empty column raises IndexError; the assignment of the    *)
(* first frame's column has then already happened or not, as in the code.  *)
(* The result records the locals time1 and time2 next to the returned      *)
(* pair (common_dist, time1 - time2).                                      *)
(***************************************************************************)
CalculateDeltaTime(a, b) ==
  IF Len(a.Time) = 0
  THEN [a |-> a, b |-> b, result |-> Raised("IndexError")]
  ELSE IF Len(b.Time) = 0
  THEN [a |-> WithSessionSeconds(a), b |-> b, result |-> Raised("IndexError")]
  ELSE LET a2 == WithSessionSeconds(a)
           b2 == WithSessionSeconds(b)
           min_dist == MinDist(a2, b2)
           common_dist == LinSpace(0, min_dist, N)
           time1 == Interp(common_dist, a2.Distance, a2.SessionSeconds)
           time2 == Interp(common_dist, b2.Distance, b2.SessionSeconds)
       IN  [a |-> a2, b |-> b2,
            result |-> [status |-> "ok", dist |-> common_dist,
                        delta |-> [i \in 1..N |-> time1[i] - time2[i]],
                        time1 |-> time1, time2 |-> time2]]

(***************************************************************************)
(* The delta engine applied to a pair of frames, then to the same two      *)
(* frame objects with the operands swapped.                                *)
(***************************************************************************)
\* the values of the variables of a part of the program that is not run
DeltaIdle == <<Frame(<<>>, <<>>), Frame(<<>>, <<>>), NotCalled, NotCalled, "idle">>

SectorIdle == <<<<>>, <<>>, <<>>, "idle">>

MainIdle ==
  <<[given |-> FALSE, yearIsInt |-> FALSE, gpKnown |-> FALSE,
     sessionKnown |-> FALSE, driver1Known |-> FALSE, driver2Known |-> FALSE,
     save |-> FALSE],
    "idle", <<>>, "none", {}, [stage |-> "none", kind |-> "none"], FALSE, 0 - 1>>

DeltaInit ==
  /\ \E p \in InputPairs :
       /\ tel1 = p[1]
       /\ tel2 = p[2]
  /\ first = NotCalled
  /\ second = NotCalled
  /\ dpc = "start"
  /\ lap1 = SectorIdle[1]
  /\ lap2 = SectorIdle[2]
  /\ printed = SectorIdle[3]
  /\ spc = SectorIdle[4]
  /\ args = MainIdle[1]
  /\ mpc = MainIdle[2]
  /\ out = MainIdle[3]
  /\ plot = MainIdle[4]
  /\ loaded = MainIdle[5]
  /\ raised = MainIdle[6]
  /\ unhandled = MainIdle[7]
  /\ exitStatus = MainIdle[8]

CallForward ==
  /\ dpc = "start"
  /\ LET r == CalculateDeltaTime(tel1, tel2)
     IN  /\ tel1' = r.a
         /\ tel2' = r.b
         /\ first' = r.result
  /\ dpc' = "called"
  /\ UNCHANGED <<second, svars, mvars>>

CallSwapped ==
  /\ dpc = "called"
  /\ LET r == CalculateDeltaTime(tel2, tel1)
     IN  /\ tel2' = r.a
         /\ tel1' = r.b
         /\ second' = r.result
  /\ dpc' = "swapped"
  /\ UNCHANGED <<first, svars, mvars>>

DeltaNext == CallForward \/ CallSwapped

(***************************************************************************)
(* Properties of the delta engine.                                         *)
(***************************************************************************)
Valid(tel) == Len(tel.Distance) >= 2 /\ Increasing(tel.Distance)

Returned(r) == r.status = "ok"

RelTime(tel, k) == tel.Time[k] - tel.Time[1]

\* the piecewise-linear interpolant of (distance, seconds since the first
\* sample) at x, as a weighted mean of the two neighbouring samples
PiecewiseLinear(tel, x) ==
  LET d == tel.Distance
      n == Len(d)
  IN  IF x <= d[1] * GridDen THEN 0
      ELSE IF x >= d[n] * GridDen THEN RelTime(tel, n) * TimeScale
      ELSE LET k == CHOOSE k \in 1..(n - 1) :
                      d[k] * GridDen <= x /\ x <= d[k + 1] * GridDen
           IN  (GapLcm \div (d[k + 1] - d[k]))
                 * (RelTime(tel, k) * (d[k + 1] * GridDen - x)
                    + RelTime(tel, k + 1) * (x - d[k] * GridDen))

SameSamples(tel, frame) ==
  tel.Distance = frame.Distance /\ tel.Time = frame.Time

\* C1: for two valid laps the call returns, and at every grid point the
\* delta is the first lap's piecewise-linear time minus the second lap's,
\* positive exactly where the first lap has spent more time; in the worked
\* scenario the delta is +1 s at d = 300 and 0 at d = 0, and the two
\* interpolants differ by +1 s at d = 150.
DeltaIsInterpolatedDifference ==
  (dpc # "start" /\ Valid(tel1) /\ Valid(tel2)) =>
    /\ Returned(first)
    /\ \A i \in 1..N :
         LET ta == PiecewiseLinear(tel1, first.dist[i])
             tb == PiecewiseLinear(tel2, first.dist[i])
         IN  /\ first.delta[i] = ta - tb
             /\ (first.delta[i] > 0) <=> (ta > tb)
    /\ (SameSamples(tel1, ScenarioA) /\ SameSamples(tel2, ScenarioB)) =>
         /\ first.delta[1] = 0
         /\ first.dist[N] = 300 * GridDen
         /\ first.delta[N] = TimeScale
         /\ PiecewiseLinear(tel1, 150 * GridDen) = 15 * TimeScale
         /\ PiecewiseLinear(tel2, 150 * GridDen) = 14 * TimeScale

\* C1 witness: the worked scenario has been computed, with a positive delta
\* strictly inside a segment of both laps
DeltaScenarioComputed ==
  /\ dpc = "called"
  /\ SameSamples(tel1, ScenarioA)
  /\ SameSamples(tel2, ScenarioB)
  /\ Returned(first)
  /\ first.delta[N] = TimeScale
  /\ first.delta[500] > 0

\* C2: every returned grid and delta have N = 1000 entries, the grid runs
\* from 0 to min(max distance) and is strictly increasing with uniform
\* spacing gridMax / (N - 1).
GridShape ==
  Returned(first) =>
    /\ Len(first.dist) = N
    /\ Len(first.delta) = N
    /\ first.dist[1] = 0
    /\ first.dist[N] = MinDist(tel1, tel2) * GridDen
    /\ \A i \in 1..(N - 1) :
         /\ first.dist[i] < first.dist[i + 1]
         /\ first.dist[i + 1] - first.dist[i] = MinDist(tel1, tel2)

\* C3: swapping the operands negates the delta on the same grid, also when
\* the swapped call runs on the frames the first call has processed.
SwapNegatesDelta ==
  (dpc = "swapped" /\ Valid(tel1) /\ Valid(tel2)) =>
    /\ Returned(first)
    /\ Returned(second)
    /\ second.dist = first.dist
    /\ \A i \in 1..N : second.delta[i] = 0 - first.delta[i]

\* C3 witness: both calls were made on two valid laps of different length
\* and the delta is not zero everywhere
SwappedCallMade ==
  /\ dpc = "swapped"
  /\ Valid(tel1)
  /\ Valid(tel2)
  /\ SeqMax(tel1.Distance) # SeqMax(tel2.Distance)
  /\ "SessionSeconds" \in tel1.columns
  /\ \E i \in 1..N : second.delta[i] > 0

LeftOf(tel, x) == x < tel.Distance[1] * GridDen

RightOf(tel, x) == x > tel.Distance[Len(tel.Distance)] * GridDen

\* C4: a grid point below a lap's first sampled distance gets the lap's
\* first relative time (0), a grid point beyond its last sampled distance
\* gets the lap's last relative time.
OutOfRangeIsClamped ==
  Returned(first) =>
    \A i \in 1..N :
      /\ LeftOf(tel1, first.dist[i]) => first.time1[i] = 0
      /\ LeftOf(tel2, first.dist[i]) => first.time2[i] = 0
      /\ RightOf(tel1, first.dist[i]) =>
           first.time1[i] = RelTime(tel1, Len(tel1.Time)) * TimeScale
      /\ RightOf(tel2, first.dist[i]) =>
           first.time2[i] = RelTime(tel2, Len(tel2.Time)) * TimeScale

\* C4 witness: one call in which grid points lie below the first sample of
\* one valid lap and beyond the last sample of the other
BothClampsHappen ==
  /\ Returned(first)
  /\ Valid(tel1)
  /\ Valid(tel2)
  /\ \E i \in 1..N : LeftOf(tel1, first.dist[i])
  /\ \E i \in 1..N : RightOf(tel2, first.dist[i])

\* C5: a lap with fewer than 2 usable samples makes the call fail with
\* InvalidTelemetry.
FewSamplesRaiseInvalidTelemetry ==
  (dpc # "start" /\ (Len(tel1.Distance) < 2 \/ Len(tel2.Distance) < 2)) =>
    first.status = "InvalidTelemetry"

DistanceRangesDisjoint(a, b) ==
  \/ SeqMax(a.Distance) < b.Distance[1]
  \/ SeqMax(b.Distance) < a.Distance[1]

\* C6: a common range gridMax <= 0, or two laps whose distance ranges do
\* not overlap, make the call fail with DegenerateRange.
EmptyRangeRaisesDegenerateRange ==
  (/\ dpc # "start"
   /\ Valid(tel1)
   /\ Valid(tel2)
   /\ (MinDist(tel1, tel2) <= 0 \/ DistanceRangesDisjoint(tel1, tel2))) =>
    first.status = "DegenerateRange"

\* C7: a call leaves both input frames exactly as they were.
InputsUntouched == [][tel1' = tel1 /\ tel2' = tel2]_vars

(***************************************************************************)
(* Sector comparison.  A lap is a record of timing fields, each of which   *)
(* may be absent; durations are whole milliseconds, the resolution of the  *)
(* timing data.                                                            *)
(***************************************************************************)
SectorName(i) ==
  IF i = 1 THEN "Sector1Time" ELSE IF i = 2 THEN "Sector2Time" ELSE "Sector3Time"

SectorNames == {SectorName(i) : i \in 1..3}

SectorSum(lap) ==
  LET v(name) == IF name \in DOMAIN lap THEN lap[name] ELSE 0
  IN  v("Sector1Time") + v("Sector2Time") + v("Sector3Time")

\* a lap with the sector fields of `present`, and a lap time that is the sum
\* of its sectors (extra = 0), differs from it, or is absent
LapRecords ==
  UNION {UNION {
     {[name \in present |-> durations[name]] }
       \cup {[name \in present \cup {"LapTime"} |->
                IF name = "LapTime"
                THEN SectorSum([n \in present |-> durations[n]]) + extra
                ELSE durations[name]] : extra \in 0..1}
     : durations \in [SectorNames -> 0..MaxSector]}
     : present \in SUBSET SectorNames}

TimedLap(s1, s2, s3, total) ==
  [name \in SectorNames \cup {"LapTime"} |->
     IF name = "Sector1Time" THEN s1
     ELSE IF name = "Sector2Time" THEN s2
     ELSE IF name = "Sector3Time" THEN s3 ELSE total]

SectorScenarioA == TimedLap(30000, 40000, 35000, 105000)

SectorScenarioB == TimedLap(29500, 40500, 34000, 104000)

LapPairs ==
  (LapRecords \X LapRecords) \cup {<<SectorScenarioA, SectorScenarioB>>}

\* timedelta(seconds=0)
ZeroDuration == 0

\* getattr(lap, name, default)
GetAttr(lap, name, default) ==
  IF name \in DOMAIN lap THEN lap[name] ELSE default

\* f"{x.total_seconds():.3f}s" and, with forceSign, f"{...:+.3f}s"
Format3(ms, forceSign) ==
  LET mag == IF ms < 0 THEN 0 - ms ELSE ms
  IN  [sign |-> IF ms < 0 THEN "-" ELSE IF forceSign THEN "+" ELSE "",
       whole |-> mag \div 1000, frac |-> mag % 1000]

\* the duration a formatted number stands for, in milliseconds
Shown(f) ==
  (IF f.sign = "-" THEN 0 - 1 ELSE 1) * (f.whole * 1000 + f.frac)

\* the second lap's time minus the first lap's
SectorRowReversed(a, b, i) ==
  LET sector1 == GetAttr(a, SectorName(i), ZeroDuration)
      sector2 == GetAttr(b, SectorName(i), ZeroDuration)
      delta == sector2 - sector1
  IN  [kind |-> "sector", sector |-> i, t1 |-> Format3(sector1, FALSE),
       t2 |-> Format3(sector2, FALSE), delta |-> Format3(delta, TRUE)]

\* one pass of the loop over range(1, 4)
SectorRow(a, b, i) ==
  LET sector1 == GetAttr(a, SectorName(i), ZeroDuration)
      sector2 == GetAttr(b, SectorName(i), ZeroDuration)
      delta == sector1 - sector2
  IN  [kind |-> "sector", sector |-> i, t1 |-> Format3(sector1, FALSE),
       t2 |-> Format3(sector2, FALSE), delta |-> Format3(delta, TRUE)]

TotalRow(a, b) ==
  [kind |-> "total", delta |-> Format3(a["LapTime"] - b["LapTime"], TRUE)]

HeaderRows == <<[kind |-> "title"], [kind |-> "header"], [kind |-> "rule"]>>

\* print_sector_times(a, b, ...): the lines printed and how the call ends;
\* a lap without LapTime raises KeyError after the sector rows are out
PrintSectorTimes(a, b) ==
  LET rows == HeaderRows \o [i \in 1..3 |-> SectorRow(a, b, i)]
  IN  IF "LapTime" \in DOMAIN a /\ "LapTime" \in DOMAIN b
      THEN [lines |-> Append(rows, TotalRow(a, b)), status |-> "ok"]
      ELSE [lines |-> rows, status |-> "KeyError"]

SectorInit ==
  /\ \E p \in LapPairs :
       /\ lap1 = p[1]
       /\ lap2 = p[2]
  /\ printed = <<>>
  /\ spc = "start"
  /\ tel1 = DeltaIdle[1]
  /\ tel2 = DeltaIdle[2]
  /\ first = DeltaIdle[3]
  /\ second = DeltaIdle[4]
  /\ dpc = DeltaIdle[5]
  /\ args = MainIdle[1]
  /\ mpc = MainIdle[2]
  /\ out = MainIdle[3]
  /\ plot = MainIdle[4]
  /\ loaded = MainIdle[5]
  /\ raised = MainIdle[6]
  /\ unhandled = MainIdle[7]
  /\ exitStatus = MainIdle[8]

SectorsPrinted ==
  /\ spc = "start"
  /\ PrintSectorTimes(lap1, lap2).status = "ok"
  /\ printed' = PrintSectorTimes(lap1, lap2).lines
  /\ spc' = "ok"
  /\ UNCHANGED <<lap1, lap2, dvars, mvars>>

SectorsRaised ==
  /\ spc = "start"
  /\ PrintSectorTimes(lap1, lap2).status # "ok"
  /\ printed' = PrintSectorTimes(lap1, lap2).lines
  /\ spc' = PrintSectorTimes(lap1, lap2).status
  /\ UNCHANGED <<lap1, lap2, dvars, mvars>>

SectorNext == SectorsPrinted \/ SectorsRaised

(***************************************************************************)
(* The command-line run: __main__ parses the arguments and calls           *)
(* compare_drivers, whose body is one try block with one handler.          *)
(* What the collaborators (argparse, fastf1, matplotlib, the file system)  *)
(* do is an input: `args` says which command-line values are usable, and   *)
(* each stage draws whether its collaborator fails.                        *)
(***************************************************************************)
ArgRecords ==
  [given : BOOLEAN, yearIsInt : BOOLEAN, gpKnown : BOOLEAN,
   sessionKnown : BOOLEAN, driver1Known : BOOLEAN, driver2Known : BOOLEAN,
   save : BOOLEAN]

NoException == [stage |-> "none", kind |-> "none"]

Running == 0 - 1

\* subclasses of Exception that the stages raise
ExceptionKinds == {"OSError", "ValueError", "KeyError", "IndexError", "Exception"}

\* a handler for ValueError alone
CatchesValueErrorOnly(kind) == kind = "ValueError"

\* except Exception as e:
Catches(kind) == kind \in ExceptionKinds

ErrorReport == <<"Error", "checklist">>

\* parser.parse_args(): a missing required option or a year that is not an
\* integer ends the run with a usage message and status 2
ParseArgs(a) == IF a.given /\ a.yearIsInt THEN "ok" ELSE "usage error"

\* load_lap_data: get_session and session.load run outside its try block,
\* everything after them is re-raised as ValueError
LoadLapData(a, driverKnown, sessionLoads, lapFound) ==
  IF ~(a.gpKnown /\ a.sessionKnown /\ sessionLoads) THEN "Exception"
  ELSE IF ~(driverKnown /\ lapFound) THEN "ValueError"
  ELSE "ok"

\* an exception of `kind` leaves the try block of compare_drivers at `stage`
Raise(stage, kind) ==
  /\ raised' = [stage |-> stage, kind |-> kind]
  /\ IF Catches(kind)
     THEN /\ out' = out \o ErrorReport
          /\ mpc' = "returned"
          /\ UNCHANGED <<unhandled, exitStatus>>
     ELSE /\ unhandled' = TRUE
          /\ exitStatus' = 1
          /\ mpc' = "exited"
          /\ UNCHANGED out

MainInit ==
  /\ args \in ArgRecords
  /\ mpc = "parse"
  /\ out = <<>>
  /\ plot = "none"
  /\ loaded = {}
  /\ raised = NoException
  /\ unhandled = FALSE
  /\ exitStatus = Running
  /\ tel1 = DeltaIdle[1]
  /\ tel2 = DeltaIdle[2]
  /\ first = DeltaIdle[3]
  /\ second = DeltaIdle[4]
  /\ dpc = DeltaIdle[5]
  /\ lap1 = SectorIdle[1]
  /\ lap2 = SectorIdle[2]
  /\ printed = SectorIdle[3]
  /\ spc = SectorIdle[4]

ArgumentsParsed ==
  /\ mpc = "parse"
  /\ ParseArgs(args) = "ok"
  /\ mpc' = "setup_cache"
  /\ UNCHANGED <<args, out, plot, loaded, raised, unhandled, exitStatus>>
  /\ UNCHANGED <<dvars, svars>>

ArgumentsRejected ==
  /\ mpc = "parse"
  /\ ParseArgs(args) # "ok"
  /\ out' = out \o <<"usage", "argument error">>
  /\ exitStatus' = 2
  /\ mpc' = "exited"
  /\ UNCHANGED <<args, plot, loaded, raised, unhandled>>
  /\ UNCHANGED <<dvars, svars>>

SetupCache ==
  /\ mpc = "setup_cache"
  /\ \E cacheOk \in BOOLEAN :
       IF cacheOk
       THEN /\ out' = Append(out, "Loading data")
            /\ mpc' = "load1"
            /\ UNCHANGED <<raised, unhandled, exitStatus>>
       ELSE Raise("setup_cache", "OSError")
  /\ UNCHANGED <<args, plot, loaded>>
  /\ UNCHANGED <<dvars, svars>>

LoadDriver1 ==
  /\ mpc = "load1"
  /\ \E sessionLoads \in BOOLEAN, lapFound \in BOOLEAN :
       LET r == LoadLapData(args, args.driver1Known, sessionLoads, lapFound)
       IN  IF r = "ok"
           THEN /\ loaded' = loaded \cup {"driver1"}
                /\ mpc' = "load2"
                /\ UNCHANGED <<out, raised, unhandled, exitStatus>>
           ELSE /\ Raise("load1", r)
                /\ UNCHANGED loaded
  /\ UNCHANGED <<args, plot>>
  /\ UNCHANGED <<dvars, svars>>

LoadDriver2 ==
  /\ mpc = "load2"
  /\ \E sessionLoads \in BOOLEAN, lapFound \in BOOLEAN :
       LET r == LoadLapData(args, args.driver2Known, sessionLoads, lapFound)
       IN  IF r = "ok"
           THEN /\ loaded' = loaded \cup {"driver2"}
                /\ mpc' = "lap_times"
                /\ UNCHANGED <<out, raised, unhandled, exitStatus>>
           ELSE /\ Raise("load2", r)
                /\ UNCHANGED loaded
  /\ UNCHANGED <<args, plot>>
  /\ UNCHANGED <<dvars, svars>>

PrintLapTimes ==
  /\ mpc = "lap_times"
  /\ \E hasLapTime \in BOOLEAN :
       IF hasLapTime
       THEN /\ out' = Append(out, "Fastest Lap Times")
            /\ mpc' = "sector_times"
            /\ UNCHANGED <<raised, unhandled, exitStatus>>
       ELSE Raise("lap_times", "KeyError")
  /\ UNCHANGED <<args, plot, loaded>>
  /\ UNCHANGED <<dvars, svars>>

PrintSectors ==
  /\ mpc = "sector_times"
  /\ \E status \in {"ok", "KeyError"} :
       IF status = "ok"
       THEN /\ out' = Append(out, "Sector Time Comparison")
            /\ mpc' = "plots"
            /\ UNCHANGED <<raised, unhandled, exitStatus>>
       ELSE Raise("sector_times", status)
  /\ UNCHANGED <<args, plot, loaded>>
  /\ UNCHANGED <<dvars, svars>>

\* create_comparison_plots: the colour lookup falls back to fixed colours,
\* calculate_delta_time or the drawing may raise, and only then is the
\* figure saved or shown
CreateComparisonPlots ==
  /\ mpc = "plots"
  /\ \E deltaStatus \in {"ok", "IndexError"}, figureOk \in BOOLEAN :
       IF deltaStatus # "ok"
       THEN /\ Raise("plots", deltaStatus)
            /\ UNCHANGED plot
       ELSE IF ~figureOk
       THEN /\ Raise("plots", "OSError")
            /\ UNCHANGED plot
       ELSE /\ plot' = IF args.save THEN "saved" ELSE "shown"
            /\ out' = IF args.save THEN Append(out, "Plot saved") ELSE out
            /\ mpc' = "returned"
            /\ UNCHANGED <<raised, unhandled, exitStatus>>
  /\ UNCHANGED <<args, loaded>>
  /\ UNCHANGED <<dvars, svars>>

\* compare_drivers has returned and the script ends
ScriptEnds ==
  /\ mpc = "returned"
  /\ exitStatus' = 0
  /\ mpc' = "exited"
  /\ UNCHANGED <<args, out, plot, loaded, raised, unhandled>>
  /\ UNCHANGED <<dvars, svars>>

MainNext ==
  \/ ArgumentsParsed
  \/ ArgumentsRejected
  \/ SetupCache
  \/ LoadDriver1
  \/ LoadDriver2
  \/ PrintLapTimes
  \/ PrintSectors
  \/ CreateComparisonPlots
  \/ ScriptEnds

(***************************************************************************)
(* Specifications.                                                         *)
(***************************************************************************)
DeltaSpec == DeltaInit /\ [][DeltaNext]_vars

SectorSpec == SectorInit /\ [][SectorNext]_vars

MainSpec == MainInit /\ [][MainNext]_vars

InvalidInput(a) ==
  ~(a.given /\ a.yearIsInt /\ a.gpKnown /\ a.sessionKnown
      /\ a.driver1Known /\ a.driver2Known)

EndsWithErrorReport(o) ==
  Len(o) >= 2 /\ SubSeq(o, Len(o) - 1, Len(o)) = ErrorReport

Occurs(o, line) == \E i \in 1..Len(o) : o[i] = line

\* C9: no exception raised by a stage of compare_drivers escapes it; once one
\* is raised the diagnostic and the checklist are the last lines printed and
\* no plot exists; a plot exists only after both drivers' data was loaded
\* and the sector comparison printed.
FailuresAreReported ==
  /\ ~unhandled
  /\ raised # NoException =>
       /\ EndsWithErrorReport(out)
       /\ plot = "none"
       /\ mpc \in {"returned", "exited"}
  /\ plot # "none" =>
       /\ loaded = {"driver1", "driver2"}
       /\ Occurs(out, "Sector Time Comparison")
       /\ raised = NoException

\* C9 witness: the second driver failed to load after the first had loaded,
\* and the failure was reported
LoadFailureReported ==
  /\ raised.stage = "load2"
  /\ raised.kind = "ValueError"
  /\ loaded = {"driver1"}
  /\ EndsWithErrorReport(out)
  /\ mpc = "exited"

\* C10: a run given a missing or invalid value ends with an error message
\* and a non-zero exit status, and a run that ends with status 0 has
\* completed the comparison.
ExitStatusTellsOutcome ==
  mpc = "exited" =>
    /\ InvalidInput(args) =>
         /\ exitStatus # 0
         /\ (Occurs(out, "Error") \/ Occurs(out, "argument error"))
    /\ exitStatus = 0 => plot # "none"

OrZero(lap, i) == IF SectorName(i) \in DOMAIN lap THEN lap[SectorName(i)] ELSE 0

HasLapTimes == "LapTime" \in DOMAIN lap1 /\ "LapTime" \in DOMAIN lap2

\* C8: the printed table has, after the heading, the rows of sectors 1, 2, 3
\* in order, each with both times and delta = time of lap 1 - time of lap 2,
\* a missing sector time shown as zero and no error raised for it; then one
\* total row with lapTime 1 - lapTime 2; and when each lap time is the sum
\* of the lap's sectors the sector deltas add up to the total delta.
SectorTableIsDifference ==
  (spc # "start" /\ HasLapTimes) =>
    /\ spc = "ok"
    /\ Len(printed) = 7
    /\ \A i \in 1..3 :
         LET row == printed[3 + i]
         IN  /\ row.kind = "sector"
             /\ row.sector = i
             /\ Shown(row.t1) = OrZero(lap1, i)
             /\ Shown(row.t2) = OrZero(lap2, i)
             /\ Shown(row.delta) = OrZero(lap1, i) - OrZero(lap2, i)
    /\ printed[7].kind = "total"
    /\ Shown(printed[7].delta) = lap1["LapTime"] - lap2["LapTime"]
    /\ (lap1["LapTime"] = SectorSum(lap1) /\ lap2["LapTime"] = SectorSum(lap2)) =>
         Shown(printed[4].delta) + Shown(printed[5].delta)
           + Shown(printed[6].delta) = Shown(printed[7].delta)
    /\ (lap1 = SectorScenarioA /\ lap2 = SectorScenarioB) =>
         /\ printed[4].delta = [sign |-> "+", whole |-> 0, frac |-> 500]
         /\ printed[5].delta = [sign |-> "-", whole |-> 0, frac |-> 500]
         /\ printed[6].delta = [sign |-> "+", whole |-> 1, frac |-> 0]
         /\ printed[7].delta = [sign |-> "+", whole |-> 1, frac |-> 0]

\* C8 witness: a table was printed for two laps, one of which lacks a sector
\* time the other has, with a non-zero sector delta
SectorTablePrinted ==
  /\ spc = "ok"
  /\ "Sector2Time" \notin DOMAIN lap1
  /\ "Sector2Time" \in DOMAIN lap2
  /\ Shown(printed[5].delta) < 0
  /\ lap1["LapTime"] = SectorSum(lap1)
  /\ lap2["LapTime"] = SectorSum(lap2)

====
